---- MODULE Spec2Model ----
(***************************************************************************)
(* Model of the Google GenAI manifold pipeline                             *)
(* (examples/pipelines/providers/google_manifold_pipeline.py).             *)
(*                                                                         *)
(* The Adapter is the Pipeline object; the Host is the server that         *)
(* constructs it, calls its lifecycle hooks and pipe(), and pulls from the *)
(* generator pipe() returns; the Provider is the google-genai SDK, whose   *)
(* calls are external: each may succeed or raise.                          *)
(*                                                                         *)
(* Python strings are sequences of pieces.  Model ids, model names and     *)
(* URLs, which the code slices, splits and tests by prefix, are sequences  *)
(* of single characters; texts the code only concatenates are sequences of *)
(* opaque pieces.  Python's None-or-value is a sequence of length 0 or 1.  *)
(***************************************************************************)
EXTENDS Integers, Sequences, FiniteSets, TLC

\* ---------------------------------------------------------------- bounds
MaxDots == 2      \* leading dots tried in front of a model id
MaxModels == 2    \* models in one Provider list answer
MaxMsgs == 2      \* messages in one conversation
MaxParts == 2     \* entries in one content list
MaxChunks == 3    \* chunks in one Provider stream

\* ------------------------------------------------------- Python helpers
NoneVal == <<>>
Some(x) == <<x>>
IsNone(o) == o = <<>>

\* s.startswith(p)
StartsWith(s, p) == Len(s) >= Len(p) /\ SubSeq(s, 1, Len(p)) = p

\* s[n:]
Drop(s, n) == IF n >= Len(s) THEN <<>> ELSE SubSeq(s, n + 1, Len(s))

\* s[:n]
Take(s, n) == IF n >= Len(s) THEN s ELSE SubSeq(s, 1, n)

RECURSIVE LStrip(_, _)
\* s.lstrip(c)
LStrip(s, c) == IF s # <<>> /\ Head(s) = c THEN LStrip(Tail(s), c) ELSE s

RECURSIVE SplitAt(_, _, _)
\* s.split(sep): the fields of s between occurrences of the character sep;
\* acc is the field being read
SplitAt(s, sep, acc) ==
    IF s = <<>> THEN <<acc>>
    ELSE IF Head(s) = sep THEN <<acc>> \o SplitAt(Tail(s), sep, <<>>)
    ELSE SplitAt(Tail(s), sep, Append(acc, Head(s)))

Split(s, sep) == SplitAt(s, sep, <<>>)

\* body.get(k, d)
Get(body, k, d) == IF k \in DOMAIN body THEN body[k] ELSE d

\* all sequences over S of length at most n
SeqsUpTo(S, n) == UNION { [1..k -> S] : k \in 0..n }

\* ------------------------------------------------------------ literals
NsPrefix == <<"g","o","o","g","l","e","_","g","e","n","a","i",".">>
GeminiPrefix == <<"g","e","m","i","n","i","-">>
ModelsPrefix == <<"m","o","d","e","l","s","/">>
DataImagePrefix == <<"d","a","t","a",":","i","m","a","g","e">>
NsSliceLen == 12
NameSliceLen == 7

ErrorId == <<"e","r","r","o","r">>

\* ------------------------------------------------------------ the state
VARIABLES
    phase,      \* "new": not constructed; "up": constructed; "dead": __init__ raised
    key,        \* self.valves.GOOGLE_API_KEY
    client,     \* self.client: NoneVal while the attribute is unset, else Some(api key)
    pipelines,  \* self.pipelines, the catalog
    lastOp,     \* the Host's last call into the Adapter
    raised,     \* that call raised a fault to the Host
    caught,     \* that call caught an exception in its except block
    arg,        \* Some(inputs) of the pipe call whose result the Host holds
    ret,        \* Some(value) that pipe call returned
    sent,       \* the generate calls that pipe call made to the Provider
    made,       \* the Provider clients that pipe call constructed
    gen         \* the generator that pipe call returned (stream_response)

vars == <<phase, key, client, pipelines, lastOp, raised, caught, arg, ret, sent, made, gen>>

Keys == {"", "k1", "k2"}

\* ------------------------------------------------- 4.1 the model catalog
\* what the Provider may list: name, display_name, supported_actions
ModelPool == {
    [name |-> Some(ModelsPrefix \o <<"g","1">>), display_name |-> "Gemini 1",
     supported_actions |-> Some({"generateContent", "countTokens"})],
    [name |-> Some(ModelsPrefix \o <<"e","m","b">>), display_name |-> "Embedding",
     supported_actions |-> Some({"embedContent"})],
    [name |-> Some(<<"t","u","n","e","d","M","o","d","e","l","s","/","t","1">>),
     display_name |-> "Tuned 1", supported_actions |-> Some({"generateContent"})],
    [name |-> Some(ModelsPrefix \o <<"x">>), display_name |-> "No actions",
     supported_actions |-> NoneVal],
    [name |-> NoneVal, display_name |-> "No name",
     supported_actions |-> Some({"generateContent"})] }

\* the outcome of the Provider calls of one catalog refresh: the call that
\* raises, if any (genai.Client or models.list), and the models listed
ListOutcomes ==
    [fault : {"none", "client", "list"}, models : SeqsUpTo(ModelPool, MaxModels)]

ErrorCatalog ==
    << [id |-> ErrorId,
        name |-> "Could not fetch models from Google, please update the API Key in the valves."] >>

RECURSIVE Comprehension(_)
\* the list comprehension of update_pipelines over the listed models:
\* [ok |-> FALSE] when reading a model raises, else the entries kept
Comprehension(models) ==
    IF models = <<>> THEN [ok |-> TRUE, items |-> <<>>]
    ELSE LET m == Head(models)
             rest == Comprehension(Tail(models))
         IN  IF IsNone(m.supported_actions) THEN [ok |-> FALSE, items |-> <<>>]
             ELSE IF "generateContent" \notin m.supported_actions[1] THEN rest
             ELSE IF IsNone(m.name) THEN [ok |-> FALSE, items |-> <<>>]
             ELSE IF Take(m.name[1], NameSliceLen) # ModelsPrefix THEN rest
             ELSE IF ~rest.ok THEN rest
             ELSE [ok |-> TRUE,
                   items |-> << [id |-> Drop(m.name[1], NameSliceLen),
                                 name |-> m.display_name] >> \o rest.items]

\* lines 66-77: the try block of update_pipelines raises
UpdateRaises(cl, prov) ==
    IsNone(cl) \/ prov.fault = "list" \/ ~Comprehension(prov.models).ok

\* update_pipelines: the new self.pipelines, given the credential, self.client
\* and the Provider's answer
UpdatePipelines(k, cl, prov) ==
    IF k # ""
    THEN IF UpdateRaises(cl, prov) THEN ErrorCatalog
         ELSE Comprehension(prov.models).items
    ELSE <<>>

NoGen == [pc |-> "none"]

Idle == arg = NoneVal

NoCall == /\ arg' = NoneVal /\ ret' = NoneVal /\ sent' = <<>> /\ made' = 0
          /\ gen' = NoGen

\* Pipeline.__init__ with os.getenv("GOOGLE_API_KEY", "") = envKey
Construct(envKey, prov) ==
    /\ phase = "new"
    /\ lastOp' = "__init__"
    /\ key' = envKey
    /\ IF envKey # "" /\ prov.fault = "client"
       THEN \* genai.Client raises: no object comes to exist
            /\ phase' = "dead" /\ raised' = TRUE /\ caught' = FALSE
            /\ client' = NoneVal /\ pipelines' = <<>>
       ELSE /\ phase' = "up" /\ raised' = FALSE
            /\ client' = IF envKey # "" THEN Some(envKey) ELSE NoneVal
            /\ pipelines' = UpdatePipelines(envKey, client', prov)
            /\ caught' = (envKey # "" /\ UpdateRaises(client', prov))
    /\ NoCall

\* the body shared by on_startup and on_valves_updated, with credential k
Refresh(k, prov) ==
    IF prov.fault = "client"
    THEN /\ raised' = TRUE /\ caught' = FALSE /\ UNCHANGED <<client, pipelines>>
    ELSE /\ raised' = FALSE
         /\ client' = Some(k)
         /\ pipelines' = UpdatePipelines(k, client', prov)
         /\ caught' = (k # "" /\ UpdateRaises(client', prov))

OnStartup(prov) ==
    /\ phase = "up" /\ Idle
    /\ lastOp' = "on_startup"
    /\ Refresh(key, prov)
    /\ UNCHANGED <<phase, key, arg, ret, sent, made, gen>>

OnShutdown ==
    /\ phase = "up" /\ Idle
    /\ lastOp' = "on_shutdown" /\ raised' = FALSE /\ caught' = FALSE
    /\ UNCHANGED <<phase, key, client, pipelines, arg, ret, sent, made, gen>>

\* the Host stores the new valves, then calls on_valves_updated
OnValvesUpdated(newKey, prov) ==
    /\ phase = "up" /\ Idle
    /\ lastOp' = "on_valves_updated"
    /\ key' = newKey
    /\ Refresh(newKey, prov)
    /\ UNCHANGED <<phase, arg, ret, sent, made, gen>>

\* ------------------------------------------- 4.2 request normalization
\* lines 96-98: the model id the Provider is asked for
NormalizeModelId(model_id) ==
    LStrip(IF StartsWith(model_id, NsPrefix) THEN Drop(model_id, NsSliceLen)
           ELSE model_id, ".")

\* ValidModelId, were the family name tested without its dash
ValidModelIdLoose(id) == StartsWith(id, <<"g","e","m","i","n","i">>)

\* line 100
ValidModelId(id) == StartsWith(id, GeminiPrefix)

\* the result of a piece of the try block: a value, or the exception raised
Ok(v) == [ok |-> TRUE, val |-> v, err |-> ""]
Raise(e) == [ok |-> FALSE, val |-> NoneVal, err |-> e]

RECURSIVE SystemMessageLast(_)
\* SystemMessage, were the last system message taken instead of the first
SystemMessageLast(messages) ==
    IF messages = <<>> THEN Ok(NoneVal)
    ELSE LET msg == messages[Len(messages)]
         IN  IF msg.role = "system"
             THEN IF "content" \in DOMAIN msg THEN Ok(Some(msg.content))
                  ELSE Raise("KeyError: 'content'")
             ELSE SystemMessageLast(SubSeq(messages, 1, Len(messages) - 1))

RECURSIVE SystemMessage(_)
\* line 106: next((msg["content"] for msg in messages if msg["role"] == "system"), None)
SystemMessage(messages) ==
    IF messages = <<>> THEN Ok(NoneVal)
    ELSE LET msg == Head(messages)
         IN  IF msg.role = "system"
             THEN IF "content" \in DOMAIN msg THEN Ok(Some(msg.content))
                  ELSE Raise("KeyError: 'content'")
             ELSE SystemMessage(Tail(messages))

\* types.Part.from_text / types.Part.from_uri
FromText(t) == [kind |-> "text", text |-> t]
FromUri(u, mime) == [kind |-> "file_data", file_uri |-> u, mime_type |-> mime]

\* lines 114-122: the parts one entry of a content list appends
EntryParts(content) ==
    IF content.type = "text" THEN Ok(<<FromText(content.text)>>)
    ELSE IF content.type = "image_url"
    THEN LET image_url == content.image_url.url
         IN  IF StartsWith(image_url, DataImagePrefix)
             THEN LET fields == Split(image_url, ",")
                  IN  IF Len(fields) < 2 THEN Raise("IndexError: list index out of range")
                      ELSE Ok(<<FromUri(fields[2], Some("image/jpeg"))>>)
             ELSE Ok(<<FromUri(image_url, NoneVal)>>)
    ELSE Ok(<<>>)

RECURSIVE Parts(_)
\* lines 112-122: the loop over message["content"]
Parts(entries) ==
    IF entries = <<>> THEN Ok(<<>>)
    ELSE LET first == EntryParts(Head(entries))
         IN  IF ~first.ok THEN first
             ELSE LET rest == Parts(Tail(entries))
                  IN  IF ~rest.ok THEN rest ELSE Ok(first.val \o rest.val)

\* TurnRole, were "assistant" the role tested for
TurnRoleAssistant(role) == IF role = "assistant" THEN "model" ELSE "user"

\* lines 123, 125: the role of a turn
TurnRole(role) == IF role = "user" THEN "user" ELSE "model"

\* types.Content(parts, role=...)
Content(parts, role) == [parts |-> parts, role |-> role]

\* line 111: isinstance(content, list)
IsList(content) == "list" \in DOMAIN content

\* lines 111-125: the turn of one non-system message
Turn(message) ==
    IF "content" \in DOMAIN message /\ IsList(message.content)
    THEN LET ps == Parts(message.content.list)
         IN  IF ~ps.ok THEN ps ELSE Ok(Content(ps.val, TurnRole(message.role)))
    ELSE IF "content" \notin DOMAIN message THEN Raise("KeyError: 'content'")
    ELSE Ok(Content(<<FromText(message.content.str)>>, TurnRole(message.role)))

RECURSIVE Contents(_)
\* lines 108-125: the loop over messages
Contents(messages) ==
    IF messages = <<>> THEN Ok(<<>>)
    ELSE LET message == Head(messages)
             first == IF message.role # "system" THEN Turn(message) ELSE Ok(NoneVal)
         IN  IF ~first.ok THEN first
             ELSE LET rest == Contents(Tail(messages))
                  IN  IF ~rest.ok THEN rest
                      ELSE IF message.role # "system" THEN Ok(<<first.val>> \o rest.val)
                      ELSE rest

\* lines 129-139
GenerationConfig(body, system_message) ==
    [temperature |-> Get(body, "temperature", "0.7"),
     top_p |-> Get(body, "top_p", "0.9"),
     top_k |-> Get(body, "top_k", "40"),
     max_output_tokens |-> Get(body, "max_tokens", "8192"),
     stop_sequences |-> Get(body, "stop", <<>>),
     system_instruction |-> system_message,
     tools |-> <<"google_search">>]

\* ----------------------------------------- 4.3 dispatch and streaming
Str(tokens) == [kind |-> "str", val |-> tokens]
PyNone == [kind |-> "None", val |-> <<>>]
Generator == [kind |-> "generator", val |-> <<>>]

KeyNotSet == Str(<<"Error: GOOGLE_API_KEY is not set">>)
InvalidModel(id) == Str(<<"Error: ", "Invalid model name format", ": ">> \o id)
\* lines 160-162
ErrorOccurred(e) == Str(<<"An error occurred: ", e>>)

\* StreamResponse, were the Provider's stream drained into a list first
StreamResponseEager(response) ==
    [pc |-> "created", response |-> response, nRead |-> Len(response.chunks),
     chunk |-> NoneVal, out |-> <<>>, skipped |-> 0, pulls |-> 0]

\* line 148: self.stream_response(response) makes a generator; none of its
\* body runs before the Host's first next()
StreamResponse(response) ==
    [pc |-> "created", response |-> response, nRead |-> 0, chunk |-> NoneVal,
     out |-> <<>>, skipped |-> 0, pulls |-> 0]

\* lines 94-162: what the try block and its except block return and do
TryBlock(k, model_id, messages, body, prov) ==
    LET done(r, calls, g) == [ret |-> r, sent |-> calls, gen |-> g, caught |-> FALSE]
        except(e, calls) ==
            [ret |-> ErrorOccurred(e), sent |-> calls, gen |-> NoGen, caught |-> TRUE]
        id == NormalizeModelId(model_id)
        system_message == SystemMessage(messages)
        contents == Contents(messages)
        request(op) == [op |-> op, model |-> id, api_key |-> k, contents |-> contents.val,
                        config |-> GenerationConfig(body, system_message.val)]
    IN  IF prov.fault = "client" THEN except("client error", <<>>)
        ELSE IF ~ValidModelId(id) THEN done(InvalidModel(id), <<>>, NoGen)
        ELSE IF ~system_message.ok THEN except(system_message.err, <<>>)
        ELSE IF ~contents.ok THEN except(contents.err, <<>>)
        ELSE IF prov.fault = "sdk" THEN except("type error", <<>>)
        ELSE IF Get(body, "stream", FALSE)
        THEN IF prov.fault = "call"
             THEN except("provider error", <<request("generate_content_stream")>>)
             ELSE done(Generator, <<request("generate_content_stream")>>,
                       StreamResponse(prov.response))
        ELSE IF prov.fault = "call"
             THEN except("provider error", <<request("generate_content")>>)
             ELSE done(IF IsNone(prov.text) THEN PyNone ELSE Str(prov.text[1]),
                       <<request("generate_content")>>, NoGen)

\* CredentialSet, were the test of line 91 missing
CredentialAssumed(k) == TRUE

\* line 91
CredentialSet(k) == k # ""

\* Pipeline.pipe
Pipe(model_id, messages, body, prov) ==
    /\ phase = "up" /\ Idle
    /\ lastOp' = "pipe" /\ raised' = FALSE
    /\ arg' = Some([model_id |-> model_id, messages |-> messages, body |-> body,
                    key |-> key, fault |-> prov.fault])
    /\ IF ~CredentialSet(key)
       THEN /\ ret' = Some(KeyNotSet) /\ sent' = <<>> /\ made' = 0
            /\ gen' = NoGen /\ caught' = FALSE /\ UNCHANGED client
       ELSE LET t == TryBlock(key, model_id, messages, body, prov)
            IN  /\ ret' = Some(t.ret) /\ sent' = t.sent /\ gen' = t.gen
                /\ caught' = t.caught
                /\ made' = 1
                /\ client' = IF prov.fault # "client" THEN Some(key) ELSE client
    /\ UNCHANGED <<phase, key, pipelines>>

\* line 167: if chunk.text
HasText(chunk) == chunk.text # NoneVal /\ chunk.text[1] # <<>>

RECURSIVE SourceLinesReversed(_)
\* SourceLines, were each line put in front of the ones before it
SourceLinesReversed(grounding_chunks) ==
    IF grounding_chunks = <<>> THEN <<>>
    ELSE SourceLinesReversed(Tail(grounding_chunks))
         \o <<"\nSource: [", Head(grounding_chunks).web.title, "](",
              Head(grounding_chunks).web.uri, ")">>

RECURSIVE SourceLines(_)
\* lines 170-171
SourceLines(grounding_chunks) ==
    IF grounding_chunks = <<>> THEN <<>>
    ELSE <<"\nSource: [", Head(grounding_chunks).web.title, "](",
           Head(grounding_chunks).web.uri, ")">> \o SourceLines(Tail(grounding_chunks))

\* lines 168-171
Sources(chunk) ==
    LET gm == chunk.candidates[1].grounding_metadata
    IN  IF gm # NoneVal /\ gm[1].grounding_chunks # NoneVal
        THEN SourceLines(gm[1].grounding_chunks[1])
        ELSE <<>>

\* the Host calls next() on the generator
Pull ==
    /\ gen.pc \in {"created", "suspended"}
    /\ gen' = [gen EXCEPT !.pc = "reading", !.pulls = @ + 1]
    /\ lastOp' = "next" /\ raised' = FALSE /\ caught' = FALSE
    /\ UNCHANGED <<phase, key, client, pipelines, arg, ret, sent, made>>

\* line 165: the for loop asks the Provider's stream for its next chunk
GenRead ==
    /\ gen.pc = "reading"
    /\ IF gen.nRead < Len(gen.response.chunks)
       THEN /\ gen' = [gen EXCEPT !.pc = "have", !.nRead = @ + 1,
                                  !.chunk = Some(gen.response.chunks[gen.nRead + 1])]
            /\ UNCHANGED raised
       ELSE IF gen.response.fails
       THEN \* the Provider's stream raises: nothing in stream_response catches it
            /\ gen' = [gen EXCEPT !.pc = "raised", !.chunk = NoneVal]
            /\ raised' = TRUE
       ELSE \* the stream is closed: StopIteration ends the Host's loop
            /\ gen' = [gen EXCEPT !.pc = "exhausted", !.chunk = NoneVal]
            /\ UNCHANGED raised
    /\ UNCHANGED <<phase, key, client, pipelines, lastOp, caught, arg, ret, sent, made>>

\* lines 166-173: the loop body for the chunk just read
GenStep ==
    /\ gen.pc = "have"
    /\ LET chunk == gen.chunk[1]
       IN  IF HasText(chunk)
           THEN gen' = [gen EXCEPT !.pc = "suspended",
                                   !.out = Append(@, chunk.text[1] \o Sources(chunk))]
           ELSE gen' = [gen EXCEPT !.pc = "reading", !.skipped = @ + 1]
    /\ UNCHANGED <<phase, key, client, pipelines, lastOp, raised, caught, arg, ret, sent, made>>

\* the Host stops pulling and drops the generator
HostStop ==
    /\ gen.pc \in {"created", "suspended"}
    /\ gen' = [gen EXCEPT !.pc = "abandoned"]
    /\ UNCHANGED <<phase, key, client, pipelines, lastOp, raised, caught, arg, ret, sent, made>>

\* the Host is done with what pipe returned; the call's objects are gone
HostTake ==
    /\ ~Idle
    /\ gen.pc \in {"none", "exhausted", "raised", "abandoned"}
    /\ NoCall
    /\ UNCHANGED <<phase, key, client, pipelines, lastOp, raised, caught>>

\* ------------------------------------------------- the Host's inputs
Dots(n) == [i \in 1..n |-> "."]
Gemini15 == GeminiPrefix \o <<"1",".","5">>
Gpt4 == <<"g","p","t","-","4">>
NsNoDot == <<"g","o","o","g","l","e","_","g","e","n","a","i">>
QualifiedId == NsPrefix \o Gemini15

ModelIds ==
    { pre \o Dots(n) \o name :
        pre \in {<<>>, NsPrefix, NsNoDot}, n \in 0..MaxDots,
        name \in {Gemini15, Gpt4, <<"g","e","m","i","n","i">>, <<>>} }

DataUrl == DataImagePrefix \o <<"/","p","n","g",";","b","6","4",",","Q","U","I","=">>
DataUrlNoComma == DataImagePrefix \o <<"/","p","n","g">>
RemoteUrl == <<"h","t","t","p",":","/","/","x","/","a",",","b">>

TextEntry(t) == [type |-> "text", text |-> t]
ImageEntry(u) == [type |-> "image_url", image_url |-> [url |-> u]]

EntryPool ==
    { TextEntry(<<"look">>), ImageEntry(DataUrl), ImageEntry(RemoteUrl),
      ImageEntry(DataUrlNoComma), [type |-> "audio"] }

\* a message whose content is a str, and one whose content is a list
TextMsg(r, t) == [role |-> r, content |-> [str |-> t]]
ListMsg(r, l) == [role |-> r, content |-> [list |-> l]]

Sys1 == TextMsg("system", <<"be brief">>)
Sys2 == TextMsg("system", <<"be kind">>)
UserHi == TextMsg("user", <<"hi">>)

BasicMsgs ==
    { Sys1, Sys2, UserHi, TextMsg("assistant", <<"hello">>), TextMsg("tool", <<"42">>),
      [role |-> "user"] }

ListMsgs == { ListMsg(r, l) : r \in {"user", "assistant"}, l \in SeqsUpTo(EntryPool, MaxParts) }

Bodies == { [stream |-> TRUE], [stream |-> FALSE], [temperature |-> "1.0"] }

\* chunks of a Provider stream
Ref(title, uri) == [web |-> [title |-> title, uri |-> uri]]
Chunk(text, gm) == [text |-> text, candidates |-> <<[grounding_metadata |-> gm]>>]
Grounding(refs) == Some([grounding_chunks |-> refs])

ChunkPool ==
    { Chunk(Some(<<"Hel">>), NoneVal),
      Chunk(Some(<<"answer">>), Grounding(Some(<<Ref("Doc", "http://x")>>))),
      Chunk(Some(<<"lo">>), Grounding(Some(<<Ref("A", "http://a"), Ref("B", "http://b")>>))),
      Chunk(Some(<<>>), Grounding(Some(<<Ref("Doc", "http://x")>>))),
      Chunk(NoneVal, Grounding(NoneVal)) }

Responses == [chunks : SeqsUpTo(ChunkPool, MaxChunks), fails : BOOLEAN]

SmallResponses ==
    { [chunks |-> <<>>, fails |-> TRUE],
      [chunks |-> <<Chunk(Some(<<"Hel">>), NoneVal), Chunk(Some(<<>>), NoneVal)>>,
       fails |-> FALSE],
      [chunks |-> <<Chunk(Some(<<"Hel">>), NoneVal)>>, fails |-> TRUE] }

\* the outcome of the Provider calls of one pipe call: the call that raises,
\* if any (genai.Client, a types constructor, or the generate call), the
\* response's text and the chunks of its stream
PipeOutcomes(responses) ==
    [fault : {"none", "client", "sdk", "call"},
     text : {NoneVal, Some(<<"full text">>)}, response : responses]

\* ------------------------------------------------- the specifications
\* the Adapter from the module's import on: lifecycle hooks and dispatches
Init ==
    /\ phase = "new" /\ key = "" /\ client = NoneVal /\ pipelines = <<>>
    /\ lastOp = "none" /\ raised = FALSE /\ caught = FALSE
    /\ arg = NoneVal /\ ret = NoneVal /\ sent = <<>> /\ made = 0 /\ gen = NoGen

\* the Host dispatches: a few model ids, conversations and Provider answers
Dispatch ==
    /\ Idle
    /\ \E model_id \in {QualifiedId, Gpt4, <<".">> \o Gemini15},
          messages \in {<<>>, <<Sys1, UserHi>>, <<[role |-> "user"]>>,
                        <<ListMsg("user", <<ImageEntry(DataUrl)>>)>>},
          body \in Bodies, prov \in PipeOutcomes(SmallResponses) :
            Pipe(model_id, messages, body, prov)

Next ==
    \/ \E envKey \in Keys, prov \in ListOutcomes : Construct(envKey, prov)
    \/ \E prov \in ListOutcomes : OnStartup(prov)
    \/ OnShutdown
    \/ \E newKey \in Keys, prov \in ListOutcomes : OnValvesUpdated(newKey, prov)
    \/ Dispatch
    \/ Pull
    \/ GenRead
    \/ GenStep
    \/ HostStop
    \/ HostTake

Spec == Init /\ [][Next]_vars

\* a constructed Adapter with a credential, as Construct leaves it when the
\* Provider lists no model
InitUp ==
    /\ phase = "up" /\ key \in Keys \ {""} /\ client = Some(key) /\ pipelines = <<>>
    /\ lastOp = "__init__" /\ raised = FALSE /\ caught = FALSE
    /\ arg = NoneVal /\ ret = NoneVal /\ sent = <<>> /\ made = 0 /\ gen = NoGen

\* the conversations and model ids request normalization is tried on
NormInputs ==
    { [model_id |-> id, messages |-> c] : id \in ModelIds, c \in {<<>>, <<UserHi>>} }
    \cup { [model_id |-> QualifiedId, messages |-> c] : c \in SeqsUpTo(BasicMsgs, MaxMsgs) }
    \cup { [model_id |-> QualifiedId, messages |-> c] :
             c \in UNION { {<<m>>, <<Sys1, m>>, <<m, Sys2>>} : m \in ListMsgs } }

DispatchNorm ==
    /\ Idle
    /\ \E in \in NormInputs, body \in Bodies, prov \in PipeOutcomes(SmallResponses) :
          Pipe(in.model_id, in.messages, body, prov)

NextNorm ==
    \/ DispatchNorm
    \/ HostStop
    \/ HostTake

SpecNorm == InitUp /\ [][NextNorm]_vars

\* streaming dispatches over every Provider stream within the bound
DispatchStream ==
    /\ Idle
    /\ \E prov \in PipeOutcomes(Responses) :
          Pipe(QualifiedId, <<UserHi>>, [stream |-> TRUE], prov)

NextStream ==
    \/ DispatchStream
    \/ Pull
    \/ GenRead
    \/ GenStep
    \/ HostStop
    \/ HostTake

SpecStream == InitUp /\ [][NextStream]_vars

\* ------------------------------------------------------------ the claims
Hooks == {"__init__", "on_startup", "on_valves_updated"}

\* C1: no dispatch raises a fault to the Host, neither pipe itself nor a pull
\* from the sequence it returned; a Provider failure reaches the Host as an
\* error string
C1_NoFaultReachesHost ==
    /\ lastOp \in {"pipe", "next"} => ~raised
    /\ lastOp = "pipe" /\ caught /\ ~Idle => ret[1].kind = "str" /\ gen = NoGen

\* the fragments the Host is due for a stream of chunks
C2_NonEmpty(chunk) == Len(chunk.text) = 1 /\ Len(chunk.text[1]) > 0

C2_References(chunk) ==
    LET gm == chunk.candidates[1].grounding_metadata
    IN  IF Len(gm) = 0 THEN <<>>
        ELSE IF Len(gm[1].grounding_chunks) = 0 THEN <<>>
        ELSE gm[1].grounding_chunks[1]

RECURSIVE C2_Lines(_, _)
C2_Lines(refs, n) ==
    IF n = 0 THEN <<>>
    ELSE C2_Lines(refs, n - 1)
         \o <<"\nSource: [", refs[n].web.title, "](", refs[n].web.uri, ")">>

C2_Fragment(chunk) ==
    chunk.text[1] \o C2_Lines(C2_References(chunk), Len(C2_References(chunk)))

C2_Expected(chunks) ==
    LET kept == SelectSeq(chunks, C2_NonEmpty)
    IN  [i \in 1..Len(kept) |-> C2_Fragment(kept[i])]

\* C2: the values yielded so far are, in the Provider's order, one per chunk
\* with non-empty text among the chunks the generator is through with: the
\* chunk's text followed by one "\nSource: [title](uri)" line per grounding
\* reference of that chunk; at the end of the stream every chunk is through
C2_YieldsFragmentsInOrder ==
    gen.pc # "none" =>
        LET through == IF gen.pc = "have" THEN gen.nRead - 1 ELSE gen.nRead
        IN  /\ gen.out = C2_Expected(SubSeq(gen.response.chunks, 1, through))
            /\ gen.pc = "exhausted" => through = Len(gen.response.chunks)

\* a stream with a suppressed chunk and a chunk with two references, read to its end
C2_Witness ==
    /\ gen.pc = "exhausted"
    /\ gen.skipped >= 1
    /\ Len(gen.out) >= 2
    /\ \E i \in 1..Len(gen.response.chunks) :
          Len(C2_References(gen.response.chunks[i])) = 2
          /\ C2_NonEmpty(gen.response.chunks[i])

\* the chunks read from the Provider's stream so far
C9_Reads == IF gen.pc = "none" THEN 0 ELSE gen.nRead

\* C9: the generator reads a chunk only while it serves a pull: the chunks
\* read exceed the chunks yielded or suppressed by at most one, none is read
\* before the first pull, and none once the Host has stopped pulling
C9_ReadsOnlyOnPull ==
    /\ [](gen.pc # "none" =>
            /\ gen.nRead - (Len(gen.out) + gen.skipped) \in {0, 1}
            /\ gen.nRead - (Len(gen.out) + gen.skipped) = 1 => gen.pc = "have"
            /\ gen.pulls = 0 => gen.nRead = 0)
    /\ [][/\ C9_Reads' > C9_Reads => gen.pc = "reading" /\ C9_Reads' = C9_Reads + 1
          /\ gen.pc = "abandoned" => gen'.pc \in {"abandoned", "none"}
          /\ gen.pc \in {"created", "suspended", "abandoned"} => C9_Reads' <= C9_Reads]_vars

\* the Host stopped after a first fragment with chunks left unread
C9_Witness ==
    /\ gen.pc = "abandoned"
    /\ gen.nRead >= 1
    /\ gen.nRead < Len(gen.response.chunks)

\* what the claims about one dispatch speak of
Called == ~Idle
Messages == arg[1].messages
IsSystem(m) == m.role = "system"
NonSystem == SelectSeq(Messages, LAMBDA m : ~IsSystem(m))
Request == sent[1]
Rejected == \E i \in 1..Len(ret[1].val) : ret[1].val[i] = "Invalid model name format"

\* C3: the system-instruction slot of a request holds the content of the first
\* system message of the conversation, or nothing when there is none, and no
\* system message is sent as a turn
C3_SystemMessageRelocated ==
    Called /\ sent # <<>> =>
        LET systems == { i \in 1..Len(Messages) : IsSystem(Messages[i]) }
            first == CHOOSE i \in systems : \A j \in systems : i <= j
        IN  /\ Request.config.system_instruction =
                  IF systems = {} THEN NoneVal ELSE Some(Messages[first].content)
            /\ Len(Request.contents) = Len(Messages) - Cardinality(systems)
            /\ \A i \in systems, t \in 1..Len(Request.contents) :
                  \A p \in 1..Len(Request.contents[t].parts) :
                      Request.contents[t].parts[p].kind = "text"
                          => Request.contents[t].parts[p].text # Messages[i].content.str

\* two system messages: the first is relocated, the second is not sent
C3_Witness ==
    /\ Called /\ sent # <<>>
    /\ Len(Messages) = 2
    /\ IsSystem(Messages[1]) /\ IsSystem(Messages[2])
    /\ Messages[1] # Messages[2]
    /\ Request.config.system_instruction = Some(Messages[1].content)

\* C4: a request has one turn per non-system message, in order, with role
\* "user" for a user message and "model" for any other; a conversation without
\* non-system messages is sent with an empty turn list
C4_TurnsFollowMessages ==
    /\ Called /\ sent # <<>> =>
          /\ Len(Request.contents) = Len(NonSystem)
          /\ \A i \in 1..Len(NonSystem) :
                /\ Request.contents[i].role =
                      IF NonSystem[i].role = "user" THEN "user" ELSE "model"
                /\ "str" \in DOMAIN NonSystem[i].content =>
                      /\ Len(Request.contents[i].parts) = 1
                      /\ Request.contents[i].parts[1].kind = "text"
                      /\ Request.contents[i].parts[1].text = NonSystem[i].content.str
    /\ Called /\ arg[1].key # "" /\ ~Rejected /\ arg[1].fault \in {"none", "call"}
          /\ NonSystem = <<>> =>
          /\ Len(sent) = 1
          /\ Request.contents = <<>>

\* a tool message and a user message: the tool turn is a model turn
C4_Witness ==
    /\ Called /\ sent # <<>>
    /\ Len(Messages) = 2
    /\ Messages[1].role = "tool" /\ Messages[2].role = "user"
    /\ Request.contents[1].role = "model" /\ Request.contents[2].role = "user"

\* the model id with the Host's namespace prefix "google_genai." removed
Unqualified(id) == IF StartsWith(id, NsPrefix) THEN Drop(id, Len(NsPrefix)) ELSE id

RECURSIVE WithoutLeadingDots(_)
WithoutLeadingDots(id) ==
    IF Len(id) > 0 /\ id[1] = "." THEN WithoutLeadingDots(SubSeq(id, 2, Len(id))) ELSE id

C5_CallsCarryGeminiIds ==
    \A i \in 1..Len(sent) :
        /\ StartsWith(sent[i].model, GeminiPrefix)
        /\ ~StartsWith(sent[i].model, NsPrefix)

\* C5 as stated, for the calls whose Provider client was constructed: with a
\* credential, a model id that does not start with "gemini-" once the namespace
\* prefix is removed is answered with "Invalid model name format" and no
\* generate call; every generate call carries an id that starts with "gemini-"
\* and has no namespace prefix
C5_AsStated ==
    Called /\ arg[1].key # "" /\ arg[1].fault # "client" =>
        /\ ~StartsWith(Unqualified(arg[1].model_id), GeminiPrefix)
              => Rejected /\ sent = <<>>
        /\ C5_CallsCarryGeminiIds
        /\ arg[1].model_id = QualifiedId /\ sent # <<>> => Request.model = Gemini15

\* C5 amended: with a credential and the Provider client constructed, a model id
\* that does not start with "gemini-" once the namespace prefix and any leading
\* dots are removed is answered with "Invalid model name format" and no generate
\* call; when constructing the client fails the answer is the generic error
\* string, again with no generate call; every generate call carries the id so
\* stripped, which starts with "gemini-" and has no namespace prefix
C5_RejectsAfterStrippingDots ==
    Called /\ arg[1].key # "" =>
        LET id == WithoutLeadingDots(Unqualified(arg[1].model_id))
        IN  /\ ~StartsWith(id, GeminiPrefix) /\ arg[1].fault # "client"
                  => Rejected /\ sent = <<>>
            /\ ~StartsWith(id, GeminiPrefix) /\ arg[1].fault = "client"
                  => ret[1].val[1] = "An error occurred: " /\ sent = <<>>
            /\ C5_CallsCarryGeminiIds
            /\ \A i \in 1..Len(sent) : sent[i].model = id
            /\ arg[1].model_id = QualifiedId /\ sent # <<>> => Request.model = Gemini15

\* ".gemini-1.5", which has no namespace prefix and does not start with
\* "gemini-", is sent to the Provider as "gemini-1.5"
C5_Witness ==
    /\ Called /\ sent # <<>>
    /\ arg[1].model_id = <<".">> \o Gemini15
    /\ Request.model = Gemini15

\* C6: a pipe call made while the credential is empty returns the fixed
\* string, constructs no Provider client and makes no Provider call
C6_NoCredentialShortCircuits ==
    Called /\ arg[1].key = "" =>
        /\ ret = Some([kind |-> "str", val |-> <<"Error: GOOGLE_API_KEY is not set">>])
        /\ made = 0
        /\ sent = <<>>
        /\ gen.pc = "none"
        /\ ~raised /\ ~caught

\* a dispatch without credential on an Adapter that holds a client and a
\* catalog from an earlier credential's hooks
C6_Witness ==
    /\ Called /\ arg[1].key = ""
    /\ client # NoneVal
    /\ client # Some("")

IsErrorCatalog == Len(pipelines) = 1 /\ pipelines[1].id = ErrorId

\* C7: a catalog refresh with a credential in which anything fails leaves the
\* one-entry "error" catalog and raises nothing to the caller
C7_FailedRefreshGivesSentinel ==
    lastOp \in Hooks /\ key # "" /\ (raised \/ caught)
        => ~raised /\ phase = "up" /\ IsErrorCatalog

\* C8: once a lifecycle hook has finished with the credential empty, the
\* catalog is empty and the hook has not raised
C8_NoCredentialEmptyCatalog ==
    phase = "up" /\ key = "" => pipelines = <<>> /\ ~(lastOp \in Hooks /\ raised)

\* the part an entry of a content list is due
C10_IsData(entry) == StartsWith(entry.image_url.url, DataImagePrefix)

C10_Payload(url) ==
    LET comma == CHOOSE i \in 1..Len(url) : url[i] = "," /\ \A j \in 1..(i - 1) : url[j] # ","
    IN  SubSeq(url, comma + 1, Len(url))

C10_PartIs(part, entry) ==
    IF entry.type = "text" THEN part.kind = "text" /\ part.text = entry.text
    ELSE IF C10_IsData(entry)
    THEN /\ part.kind = "inline_data"
         /\ part.data = C10_Payload(entry.image_url.url)
         /\ part.mime_type = "image/jpeg"
    ELSE part.kind = "file_data" /\ part.file_uri = entry.image_url.url

\* C10: the turn of a message whose content is a list of text and image
\* entries has one part per entry, in order: a text part, an inline-data part
\* with the payload after the data-URI header and MIME type image/jpeg, or a
\* URI part with the URL unchanged
C10_PartsFollowEntries ==
    Called /\ sent # <<>> =>
        \A i \in 1..Len(NonSystem) :
            LET c == NonSystem[i].content
            IN  ("list" \in DOMAIN c
                 /\ \A e \in 1..Len(c.list) : c.list[e].type \in {"text", "image_url"})
                => /\ Len(Request.contents[i].parts) = Len(c.list)
                   /\ \A e \in 1..Len(c.list) :
                         C10_PartIs(Request.contents[i].parts[e], c.list[e])

====
